---- MODULE Spec2Model ----
(***************************************************************************)
(* Model of the two analysis scripts of the repository:                    *)
(*   graph-generation/failure_analysis_plots.py  (script = "failure")      *)
(*   plot_convergence.py                         (script = "convergence")  *)
(* Each script is a sequential batch run over a data frame read once from  *)
(* a CSV file.  A state is the data frame, the position of the run and the *)
(* values the run has computed or drawn so far.  An uncaught Python        *)
(* exception ends the run (pc = "crashed", error names the exception).     *)
(*                                                                         *)
(* Floating point values are modelled as exact rationals in lowest terms   *)
(* plus the IEEE specials inf, -inf and nan that numpy division produces.  *)
(***************************************************************************)
EXTENDS Integers, Sequences, FiniteSets, TLC

(***************************************************************************)
(* script                 which of the two scripts runs                    *)
(* df                     the data frame read from the CSV file            *)
(* pc, error              position of the run; the uncaught exception      *)
(* lines                  per axis, the lines drawn on it, in order        *)
(* completed              plots drawn, figures saved, sections printed     *)
(* failure_analysis_plots.py:                                              *)
(*   baseline             lines 69 and 109 (the same global, set twice)    *)
(*   degradation_data     lines 111-119                                    *)
(*   pushsum_baseline     lines 146 and 179                                *)
(*   gossip_baseline, gossip_improvement, pushsum_improvement  175-181     *)
(* plot_convergence.py:                                                    *)
(*   plot_masks           create_plots: per topology and algorithm the     *)
(*                        converged_mask and the two lines drawn from it   *)
(*   summary_masks        create_summary_plot: the same per topology for   *)
(*                        push-sum                                         *)
(*   total_simulations, converged_simulations, convergence_rate  184-186   *)
(*   by_algorithm, by_topology   the two group loops, lines 189-213        *)
(***************************************************************************)

VARIABLES script, df, pc, error, lines, baseline,
          degradation_data, pushsum_baseline, gossip_baseline,
          gossip_improvement, pushsum_improvement, completed,
          plot_masks, summary_masks, total_simulations,
          converged_simulations, convergence_rate, by_algorithm, by_topology

vars == <<script, df, pc, error, lines, baseline,
          degradation_data, pushsum_baseline, gossip_baseline,
          gossip_improvement, pushsum_improvement, completed,
          plot_masks, summary_masks, total_simulations,
          converged_simulations, convergence_rate, by_algorithm, by_topology>>

failure_vars == <<lines, baseline, degradation_data,
                  pushsum_baseline, gossip_baseline, gossip_improvement,
                  pushsum_improvement>>

convergence_vars == <<plot_masks, summary_masks, total_simulations,
                      converged_simulations, convergence_rate,
                      by_algorithm, by_topology>>

-----------------------------------------------------------------------------
(* Bounds of the model and domains of the input columns.                   *)

MaxLen == 2

Algorithms == {"gossip", "push-sum"}

\* two of the four topologies the scripts style (full, line, 3d, imperfect3d)
Topologies == {"full", "line"}

\* failure_rate in tenths: 0 with failure_model "none", 0.1 or 0.3 otherwise
FailureKinds == {<<"none", 0>>, <<"node", 1>>, <<"node", 3>>,
                 <<"connection", 1>>, <<"connection", 3>>}

TimesMs == {0, 120, 150}

NetworkSizes == {10, 100}

Rounds == {12000, 49999, 50000, 50001}

-----------------------------------------------------------------------------
(* Floating point values.                                                  *)

Abs(n) == IF n < 0 THEN -n ELSE n

RECURSIVE GCD(_, _)
GCD(a, b) == IF b = 0 THEN a ELSE GCD(b, a % b)

\* the rational n/d (d # 0) in lowest terms with a positive denominator
Num(n, d) ==
    LET s == IF d < 0 THEN -1 ELSE 1
        g == GCD(Abs(n), Abs(d))
    IN  [kind |-> "num", num |-> (s * n) \div g, den |-> (s * d) \div g]

Float(n) == Num(n, 1)

NaN == [kind |-> "nan", num |-> 0, den |-> 0]

PosInf == [kind |-> "inf", num |-> 1, den |-> 0]

NegInf == [kind |-> "-inf", num |-> -1, den |-> 0]

\* a - b for floats
FSub(a, b) ==
    IF a.kind = "nan" \/ b.kind = "nan" THEN NaN
    ELSE IF a.kind = "num" /\ b.kind = "num"
         THEN Num(a.num * b.den - b.num * a.den, a.den * b.den)
    ELSE IF a.kind = "num" THEN (IF b.kind = "inf" THEN NegInf ELSE PosInf)
    ELSE IF b.kind = "num" THEN a
    ELSE IF a.kind = b.kind THEN NaN ELSE a

\* a / b as numpy divides scalars: no exception, x/0 is inf, -inf or nan
FDiv(a, b) ==
    IF a.kind = "nan" \/ b.kind = "nan" THEN NaN
    ELSE IF a.kind = "num" /\ b.kind = "num"
         THEN IF b.num # 0 THEN Num(a.num * b.den, a.den * b.num)
              ELSE IF a.num > 0 THEN PosInf
              ELSE IF a.num < 0 THEN NegInf
              ELSE NaN
    ELSE IF a.kind = "num" THEN Float(0)
    ELSE IF b.kind # "num" THEN NaN
    ELSE IF (b.num >= 0) = (a.kind = "inf") THEN PosInf ELSE NegInf

\* a * k for a float a and a positive integer constant k
FScale(a, k) == IF a.kind = "num" THEN Num(a.num * k, a.den) ELSE a

RECURSIVE SumSeq(_)
SumSeq(s) == IF s = <<>> THEN 0 ELSE Head(s) + SumSeq(Tail(s))

\* pandas Series.mean(): nan for an empty series
Mean(s) == IF Len(s) = 0 THEN NaN ELSE Num(SumSeq(s), Len(s))

-----------------------------------------------------------------------------
(* Data frame helpers.                                                     *)

\* df[col].values
Col(data, c) == [i \in 1..Len(data) |-> data[i][c]]

\* df[df[col] == v]
Where(data, c, v) == SelectSeq(data, LAMBDA r : r[c] = v)

\* df[df[col] != v]
WhereNot(data, c, v) == SelectSeq(data, LAMBDA r : r[c] # v)

RECURSIVE UniqueAcc(_, _)
UniqueAcc(s, acc) ==
    IF s = <<>> THEN acc
    ELSE UniqueAcc(Tail(s),
                   IF \E i \in 1..Len(acc) : acc[i] = Head(s)
                   THEN acc ELSE Append(acc, Head(s)))

NotUnique(s) == s

\* Series.unique(): the distinct values in order of first occurrence
Unique(s) == UniqueAcc(s, <<>>)

\* one plotted line per value of column c, x and y taken from columns xc, yc
LinesBy(data, c, xc, yc) ==
    LET keys == Unique(Col(data, c))
    IN  [k \in 1..Len(keys) |->
            [label |-> keys[k],
             x |-> Col(Where(data, c, keys[k]), xc),
             y |-> Col(Where(data, c, keys[k]), yc)]]

\* an optional value: <<>> while the name is unbound, <<v>> once assigned
Unbound == <<>>

-----------------------------------------------------------------------------
(* failure_analysis_plots.py                                               *)

FailureRecords ==
    {[algorithm |-> a, topology |-> t, failure_model |-> k[1],
      failure_rate |-> k[2], convergence_time_ms |-> m] :
        a \in Algorithms, t \in Topologies, k \in FailureKinds, m \in TimesMs}

Axes == {"ax1", "ax2", "ax3", "ax4", "ax5", "ax6", "fig2"}

\* df[(df['algorithm'] == a) & (df['failure_model'] == m)]
AlgoModel(data, a, m) == Where(Where(data, "algorithm", a), "failure_model", m)

\* df[df['topology'] == 'full']
full_data == Where(df, "topology", "full")

\* full_data[full_data['failure_model'] == 'none']['convergence_time_ms'].values
BaselineValues(fd) == Col(Where(fd, "failure_model", "none"), "convergence_time_ms")

\* df[(algorithm == a) & (failure_model == 'none') & (topology == 'full')]
\*   ['convergence_time_ms'].values
AlgoBaselineValues(data, a) ==
    Col(Where(AlgoModel(data, a, "none"), "topology", "full"), "convergence_time_ms")

LastMatch(values) == values[Len(values)]

\* values[0] of a non-empty array (IndexError on an empty one: see the callers)
FirstMatch(values) == values[1]

DegradationInverted(t, b) ==
    FScale(FDiv(FSub(Float(b), Float(t)), Float(b)), 100)

\* (row['convergence_time_ms'] - baseline) / baseline * 100
Degradation(t, b) ==
    FScale(FDiv(FSub(Float(t), Float(b)), Float(b)), 100)

RECURSIVE DegradationDataAll(_, _)
DegradationDataAll(fd, b) ==
    IF fd = <<>> THEN <<>>
    ELSE <<[failure_model |-> Head(fd).failure_model,
            failure_rate |-> Head(fd).failure_rate,
            degradation_pct |-> Degradation(Head(fd).convergence_time_ms, b)]>>
         \o DegradationDataAll(Tail(fd), b)

\* the loop over full_data.iterrows() that fills degradation_data
RECURSIVE DegradationData(_, _)
DegradationData(fd, b) ==
    IF fd = <<>> THEN <<>>
    ELSE (IF Head(fd).failure_model # "none"
          THEN <<[failure_model |-> Head(fd).failure_model,
                  failure_rate |-> Head(fd).failure_rate,
                  degradation_pct |->
                      Degradation(Head(fd).convergence_time_ms, b)]>>
          ELSE <<>>)
         \o DegradationData(Tail(fd), b)

\* (b - data['convergence_time_ms'].mean()) / b * 100
Improvement(b, data) ==
    FScale(FDiv(FSub(Float(b), Mean(Col(data, "convergence_time_ms"))), Float(b)), 100)

Crash(e) == /\ pc' = "crashed"
            /\ error' = e

\* Plots 1-3: one line per topology for gossip/node, gossip/connection and
\* push-sum/connection
Plots1to3 ==
    /\ script = "failure" /\ pc = "plots1to3"
    /\ lines' = [lines EXCEPT
          !["ax1"] = LinesBy(AlgoModel(df, "gossip", "node"),
                             "topology", "failure_rate", "convergence_time_ms"),
          !["ax2"] = LinesBy(AlgoModel(df, "gossip", "connection"),
                             "topology", "failure_rate", "convergence_time_ms"),
          !["ax3"] = LinesBy(AlgoModel(df, "push-sum", "connection"),
                             "topology", "failure_rate", "convergence_time_ms")]
    /\ completed' = completed \cup {"plot1", "plot2", "plot3"}
    /\ pc' = "plot4"
    /\ UNCHANGED <<script, df, error, baseline, degradation_data,
                   pushsum_baseline, gossip_baseline, gossip_improvement,
                   pushsum_improvement, convergence_vars>>

\* Plot 4: the no-failure baseline of the full topology, then the node and
\* connection failure lines
Plot4 ==
    /\ script = "failure" /\ pc = "plot4"
    /\ LET fd == full_data
           values == BaselineValues(fd)
       IN  IF Len(values) = 0
           THEN /\ Crash("IndexError")
                /\ UNCHANGED <<baseline, lines, completed>>
           ELSE /\ baseline' = <<FirstMatch(values)>>
                /\ lines' = [lines EXCEPT !["ax4"] =
                      <<[label |-> "No Failure Baseline", x |-> <<>>,
                         y |-> <<FirstMatch(values)>>],
                        [label |-> "Node Failures",
                         x |-> Col(Where(fd, "failure_model", "node"), "failure_rate"),
                         y |-> Col(Where(fd, "failure_model", "node"),
                                   "convergence_time_ms")],
                        [label |-> "Connection Failures",
                         x |-> Col(Where(fd, "failure_model", "connection"),
                                   "failure_rate"),
                         y |-> Col(Where(fd, "failure_model", "connection"),
                                   "convergence_time_ms")]>>]
                /\ completed' = completed \cup {"plot4"}
                /\ pc' = "plot5"
                /\ UNCHANGED error
    /\ UNCHANGED <<script, df, degradation_data, pushsum_baseline,
                   gossip_baseline, gossip_improvement, pushsum_improvement,
                   convergence_vars>>

\* Plot 5: one line per algorithm for connection failures on the full topology
Plot5 ==
    /\ script = "failure" /\ pc = "plot5"
    /\ lines' = [lines EXCEPT !["ax5"] =
          LinesBy(Where(Where(df, "topology", "full"), "failure_model", "connection"),
                  "algorithm", "failure_rate", "convergence_time_ms")]
    /\ completed' = completed \cup {"plot5"}
    /\ pc' = "plot6"
    /\ UNCHANGED <<script, df, error, baseline, degradation_data,
                   pushsum_baseline, gossip_baseline, gossip_improvement,
                   pushsum_improvement, convergence_vars>>

\* Plot 6, first half: the baseline is looked up again and degradation_data
\* is filled from the rows of the full topology
Plot6Degradation ==
    /\ script = "failure" /\ pc = "plot6"
    /\ LET fd == full_data
           values == BaselineValues(fd)
       IN  IF Len(values) = 0
           THEN /\ Crash("IndexError")
                /\ UNCHANGED <<baseline, degradation_data>>
           ELSE /\ baseline' = <<FirstMatch(values)>>
                /\ degradation_data' = DegradationData(fd, FirstMatch(values))
                /\ pc' = "plot6render"
                /\ UNCHANGED error
    /\ UNCHANGED <<script, df, lines, completed, pushsum_baseline,
                   gossip_baseline, gossip_improvement, pushsum_improvement,
                   convergence_vars>>

\* Plot 6, second half: deg_df = pd.DataFrame(degradation_data) has no
\* 'failure_model' column when the list is empty (KeyError); otherwise one
\* line per failure model, and the figure is saved
Plot6Render ==
    /\ script = "failure" /\ pc = "plot6render"
    /\ IF degradation_data = <<>>
       THEN /\ Crash("KeyError")
            /\ UNCHANGED <<lines, completed>>
       ELSE /\ lines' = [lines EXCEPT !["ax6"] =
                  LinesBy(degradation_data, "failure_model",
                          "failure_rate", "degradation_pct")]
            /\ completed' = completed \cup {"plot6", "failure_analysis_plots.png"}
            /\ pc' = "pushsum_plot"
            /\ UNCHANGED error
    /\ UNCHANGED <<script, df, baseline, degradation_data, pushsum_baseline,
                   gossip_baseline, gossip_improvement, pushsum_improvement,
                   convergence_vars>>

\* The separate push-sum figure: the connection-failure line is drawn, then
\* the push-sum baseline of the full topology is looked up and drawn
PushSumPlot ==
    /\ script = "failure" /\ pc = "pushsum_plot"
    /\ LET data == AlgoModel(df, "push-sum", "connection")
           values == AlgoBaselineValues(df, "push-sum")
           curve == [label |-> "Push-Sum with Connection Failures",
                     x |-> Col(data, "failure_rate"),
                     y |-> Col(data, "convergence_time_ms")]
       IN  IF Len(values) = 0
           THEN /\ Crash("IndexError")
                /\ lines' = [lines EXCEPT !["fig2"] = <<curve>>]
                /\ UNCHANGED <<pushsum_baseline, completed>>
           ELSE /\ pushsum_baseline' = <<FirstMatch(values)>>
                /\ lines' = [lines EXCEPT !["fig2"] =
                      <<curve,
                        [label |-> "Push-Sum Baseline (No Failures)", x |-> <<>>,
                         y |-> <<FirstMatch(values)>>]>>]
                /\ completed' = completed \cup
                      {"pushsum_connection_failure_analysis.png"}
                /\ pc' = "summary"
                /\ UNCHANGED error
    /\ UNCHANGED <<script, df, baseline, degradation_data, gossip_baseline,
                   gossip_improvement, pushsum_improvement, convergence_vars>>

\* The printed summary: the data summary and the list of baselines, then the
\* gossip and push-sum baselines and the two improvement figures
Summary ==
    /\ script = "failure" /\ pc = "summary"
    /\ LET gvalues == AlgoBaselineValues(df, "gossip")
           pvalues == AlgoBaselineValues(df, "push-sum")
       IN  IF Len(gvalues) = 0
           THEN /\ Crash("IndexError")
                /\ completed' = completed \cup {"data_summary", "baseline_summary"}
                /\ UNCHANGED <<gossip_baseline, gossip_improvement,
                               pushsum_baseline, pushsum_improvement>>
           ELSE /\ gossip_baseline' = <<FirstMatch(gvalues)>>
                /\ gossip_improvement' =
                      <<Improvement(FirstMatch(gvalues),
                                    WhereNot(Where(df, "algorithm", "gossip"),
                                             "failure_model", "none"))>>
                /\ IF Len(pvalues) = 0
                   THEN /\ Crash("IndexError")
                        /\ completed' = completed \cup
                              {"data_summary", "baseline_summary"}
                        /\ UNCHANGED <<pushsum_baseline, pushsum_improvement>>
                   ELSE /\ pushsum_baseline' = <<FirstMatch(pvalues)>>
                        /\ pushsum_improvement' =
                              <<Improvement(FirstMatch(pvalues),
                                            AlgoModel(df, "push-sum", "connection"))>>
                        /\ completed' = completed \cup
                              {"data_summary", "baseline_summary", "key_observations"}
                        /\ pc' = "done"
                        /\ UNCHANGED error
    /\ UNCHANGED <<script, df, lines, baseline, degradation_data, convergence_vars>>

-----------------------------------------------------------------------------
(* plot_convergence.py                                                     *)

ConvergenceCap == 50000

ConvergenceRecords ==
    {[algorithm |-> a, topology |-> t, network_size |-> n, convergence_time |-> m] :
        a \in Algorithms, t \in Topologies, n \in NetworkSizes, m \in Rounds}

converged_mask_le(convergence_times) ==
    [i \in 1..Len(convergence_times) |-> convergence_times[i] <= ConvergenceCap]

\* converged_mask = convergence_times < 50000
converged_mask(convergence_times) ==
    [i \in 1..Len(convergence_times) |-> convergence_times[i] < ConvergenceCap]

\* the points (xs[i], ys[i]) at the positions where mask[i] = b
RECURSIVE Masked(_, _, _, _)
Masked(xs, ys, mask, b) ==
    IF mask = <<>> THEN <<>>
    ELSE (IF Head(mask) = b THEN <<<<Head(xs), Head(ys)>>>> ELSE <<>>)
         \o Masked(Tail(xs), Tail(ys), Tail(mask), b)

\* what one masked pair of ax.plot calls draws for the rows of data: the
\* converged points as one line, the others as a dashed hollow line; a line
\* with no points is not drawn
MaskedPlot(data) ==
    LET convergence_times == Col(data, "convergence_time")
        network_sizes == Col(data, "network_size")
        mask == converged_mask(convergence_times)
    IN  [mask |-> mask,
         converged |-> Masked(network_sizes, convergence_times, mask, TRUE),
         did_not_converge |-> Masked(network_sizes, convergence_times, mask, FALSE)]

\* the loops of create_plots: one subplot per topology, in it one masked
\* plot per algorithm of the whole data frame
TopologyPlots(data) ==
    LET algorithms == Unique(Col(data, "algorithm"))
        topologies == Unique(Col(data, "topology"))
    IN  [i \in 1..Len(topologies) |->
           [j \in 1..Len(algorithms) |->
              [topology |-> topologies[i], algorithm |-> algorithms[j],
               plot |-> MaskedPlot(Where(Where(data, "topology", topologies[i]),
                                         "algorithm", algorithms[j]))]]]

\* the push-sum loop of create_summary_plot: one masked plot per topology
PushSumPlots(data) ==
    LET pushsum_data == Where(data, "algorithm", "push-sum")
        topologies == Unique(Col(pushsum_data, "topology"))
    IN  [i \in 1..Len(topologies) |->
           [topology |-> topologies[i],
            plot |-> MaskedPlot(Where(pushsum_data, "topology", topologies[i]))]]

ConvergedRowsLE(data) ==
    SelectSeq(data, LAMBDA r : r.convergence_time <= ConvergenceCap)

\* data[data['convergence_time'] < 50000]
ConvergedRows(data) ==
    SelectSeq(data, LAMBDA r : r.convergence_time < ConvergenceCap)

RateOfAll(converged, total, all) == FScale(Num(converged, all), 100)

\* (converged / total) * 100 for total # 0; all is len(df)
Rate(converged, total, all) == FScale(Num(converged, total), 100)

AvgTimeAll(data) == Mean(Col(data, "convergence_time"))

\* data[data['convergence_time'] < 50000]['convergence_time'].mean()
AvgTime(data) == Mean(Col(ConvergedRows(data), "convergence_time"))

AvgPrintedAlways(avg_time) == TRUE

\* if not pd.isna(avg_time): the average line is printed
AvgPrinted(avg_time) == avg_time.kind # "nan"

\* one "By Algorithm" or "By Topology" loop of print_statistics over column c
GroupStats(data, c) ==
    LET keys == Unique(Col(data, c))
    IN  [k \in 1..Len(keys) |->
           LET group == Where(data, c, keys[k])
               converged == Len(ConvergedRows(group))
               total == Len(group)
               avg_time == AvgTime(group)
           IN  [key |-> keys[k], converged |-> converged, total |-> total,
                rate |-> Rate(converged, total, Len(data)),
                avg_time |-> avg_time,
                avg_printed |-> AvgPrinted(avg_time)]]

\* create_plots, with the create_summary_plot call that ends it
create_plots ==
    /\ script = "convergence" /\ pc = "create_plots"
    /\ plot_masks' = TopologyPlots(df)
    /\ lines' = [lines EXCEPT !["ax1"] =
          LinesBy(Where(df, "algorithm", "gossip"),
                  "topology", "network_size", "convergence_time")]
    /\ summary_masks' = PushSumPlots(df)
    /\ completed' = completed \cup
          {"convergence_analysis.png", "convergence_summary.png"}
    /\ pc' = "print_statistics"
    /\ UNCHANGED <<script, df, error, baseline, degradation_data,
                   pushsum_baseline, gossip_baseline, gossip_improvement,
                   pushsum_improvement, total_simulations,
                   converged_simulations, convergence_rate,
                   by_algorithm, by_topology>>

\* print_statistics: the overall success rate (ZeroDivisionError on an
\* empty data frame), then the statistics by algorithm and by topology
print_statistics ==
    /\ script = "convergence" /\ pc = "print_statistics"
    /\ total_simulations' = <<Len(df)>>
    /\ converged_simulations' = <<Len(ConvergedRows(df))>>
    /\ IF Len(df) = 0
       THEN /\ Crash("ZeroDivisionError")
            /\ UNCHANGED <<convergence_rate, by_algorithm, by_topology, completed>>
       ELSE /\ convergence_rate' = <<Rate(Len(ConvergedRows(df)), Len(df), Len(df))>>
            /\ by_algorithm' = GroupStats(df, "algorithm")
            /\ by_topology' = GroupStats(df, "topology")
            /\ completed' = completed \cup {"statistics"}
            /\ pc' = "done"
            /\ UNCHANGED error
    /\ UNCHANGED <<script, df, failure_vars, plot_masks, summary_masks>>

-----------------------------------------------------------------------------
(* The runs.                                                               *)

\* all data frames of at most MaxLen rows over the record set R
Datasets(R) == UNION {[1..n -> R] : n \in 0..MaxLen}

FRec(a, t, m, r, ms) ==
    [algorithm |-> a, topology |-> t, failure_model |-> m,
     failure_rate |-> r, convergence_time_ms |-> ms]

CRec(a, t, n, rounds) ==
    [algorithm |-> a, topology |-> t, network_size |-> n,
     convergence_time |-> rounds]

ScenarioA == <<FRec("gossip", "full", "none", 0, 120),
               FRec("gossip", "full", "node", 1, 150),
               FRec("gossip", "full", "node", 3, 200)>>

ScenarioB == <<CRec("push-sum", "line", 10, 49000),
               CRec("push-sum", "line", 20, 50000),
               CRec("push-sum", "line", 50, 12000),
               CRec("push-sum", "line", 100, 50000),
               CRec("push-sum", "line", 200, 8000)>>

Init ==
    /\ script \in {"failure", "convergence"}
    /\ df \in IF script = "failure"
              THEN Datasets(FailureRecords) \cup {ScenarioA}
              ELSE Datasets(ConvergenceRecords) \cup {ScenarioB}
    /\ pc = IF script = "failure" THEN "plots1to3" ELSE "create_plots"
    /\ error = "none"
    /\ lines = [a \in Axes |-> <<>>]
    /\ baseline = Unbound
    /\ degradation_data = <<>>
    /\ pushsum_baseline = Unbound
    /\ gossip_baseline = Unbound
    /\ gossip_improvement = Unbound
    /\ pushsum_improvement = Unbound
    /\ completed = {}
    /\ plot_masks = <<>>
    /\ summary_masks = <<>>
    /\ total_simulations = Unbound
    /\ converged_simulations = Unbound
    /\ convergence_rate = Unbound
    /\ by_algorithm = <<>>
    /\ by_topology = <<>>

Next ==
    \/ Plots1to3
    \/ Plot4
    \/ Plot5
    \/ Plot6Degradation
    \/ Plot6Render
    \/ PushSumPlot
    \/ Summary
    \/ create_plots
    \/ print_statistics

Spec == Init /\ [][Next]_vars

-----------------------------------------------------------------------------
(* Properties.                                                             *)

Min(S) == CHOOSE x \in S : \A y \in S : x <= y

Max(S) == CHOOSE x \in S : \A y \in S : x >= y

Range(s) == {s[i] : i \in 1..Len(s)}

Terminal == pc \in {"done", "crashed"}

\* the run of the failure script is past the loop that fills degradation_data
LoopDone == script = "failure" /\ baseline # Unbound /\ pc \notin {"plot5", "plot6"}

\* the rows of the full topology with a failure, in input row order
FullFailureRows ==
    SelectSeq(df, LAMBDA r : r.topology = "full" /\ r.failure_model # "none")

\* the rows of any topology with a failure, in input row order
FailureRows == SelectSeq(df, LAMBDA r : r.failure_model # "none")

\* positions of the no-failure rows of topology t (any algorithm)
NoFailureAt(t) ==
    {i \in 1..Len(df) : df[i].topology = t /\ df[i].failure_model = "none"}

\* positions of the no-failure rows of algorithm a on topology t
NoFailureOf(a, t) == {i \in NoFailureAt(t) : df[i].algorithm = a}

\* result k carries the failure model and rate of row k of rows
SameRows(results, rows) ==
    /\ Len(results) = Len(rows)
    /\ \A k \in 1..Len(rows) :
          /\ results[k].failure_model = rows[k].failure_model
          /\ results[k].failure_rate = rows[k].failure_rate

\* positions of the rows of the convergence data whose column c is v
RowsOf(c, v) == {i \in 1..Len(df) : df[i][c] = v}

BelowCap(I) == {i \in I : df[i].convergence_time < ConvergenceCap}

RECURSIVE SumTimes(_)
SumTimes(I) ==
    IF I = {} THEN 0
    ELSE LET i == CHOOSE j \in I : TRUE
         IN  df[i].convergence_time + SumTimes(I \ {i})

RECURSIVE SumField(_, _)
SumField(s, f) == IF s = <<>> THEN 0 ELSE Head(s)[f] + SumField(Tail(s), f)

\* the two standing groupings with the column each groups on
Groupings == {<<"algorithm", by_algorithm>>, <<"topology", by_topology>>}

StatsDone == script = "convergence" /\ pc = "done"

\* every masked plot of the run with the rows it was drawn from
MaskedPlots ==
    UNION {{<<plot_masks[i][j].plot,
              Where(Where(df, "topology", plot_masks[i][j].topology),
                    "algorithm", plot_masks[i][j].algorithm)>> :
               j \in 1..Len(plot_masks[i])} : i \in 1..Len(plot_masks)}
    \cup
    {<<summary_masks[i].plot,
       Where(Where(df, "algorithm", "push-sum"),
             "topology", summary_masks[i].topology)>> :
        i \in 1..Len(summary_masks)}

\* C1: a record is classified converged iff its metric is strictly below the
\* cap of 50000, a metric equal to the cap being non-converged, and this is so
\* at every place that classifies: the masks of the per-topology plots and of
\* the push-sum summary plot, the overall count and the per-group counts.
C1_StrictlyBelowCap ==
    StatsDone =>
      /\ \A m \in MaskedPlots :
            /\ Len(m[1].mask) = Len(m[2])
            /\ \A i \in 1..Len(m[2]) :
                  /\ m[1].mask[i] = (m[2][i].convergence_time < 50000)
                  /\ m[2][i].convergence_time = 50000 => ~m[1].mask[i]
            /\ \A q \in Range(m[1].converged) : q[2] < 50000
            /\ \A q \in Range(m[1].did_not_converge) : q[2] >= 50000
            /\ Len(m[1].converged) + Len(m[1].did_not_converge) = Len(m[2])
      /\ converged_simulations =
            <<Cardinality({i \in 1..Len(df) : df[i].convergence_time < 50000})>>
      /\ \A g \in Groupings : \A k \in 1..Len(g[2]) :
            g[2][k].converged =
               Cardinality({i \in RowsOf(g[1], g[2][k].key) :
                               df[i].convergence_time < 50000})

\* C1 witness: a finished run over data holding a record exactly at the cap
\* and a record just below it
C1_Witness ==
    /\ StatsDone
    /\ \E i, j \in 1..Len(df) :
          /\ df[i].convergence_time = 50000
          /\ df[j].convergence_time = 49999
          /\ df[i].algorithm = "push-sum" /\ df[j].algorithm = "push-sum"

\* C2 (as claimed): every record the degradation loop processes is compared
\* against the no-failure record of its own algorithm and topology.
C2_OwnAlgorithmBaseline ==
    LoopDone =>
      \A k \in 1..Len(FullFailureRows) :
         LET r == FullFailureRows[k]
             own == NoFailureOf(r.algorithm, r.topology)
         IN  /\ own # {}
             /\ baseline = <<df[Min(own)].convergence_time_ms>>

\* C3 (as claimed): one result for every record with a failure, whatever its
\* topology, in input row order.
C3_OnePerFailureRecord ==
    LoopDone => SameRows(degradation_data, FailureRows)

\* C3 (amended): once the degradation loop has run, degradation_data holds
\* exactly one result for every record of the full topology with a failure, in
\* input row order, and none for any other record; before that it is empty.
C3_OnePerFullFailureRecord ==
    script = "failure" =>
       IF LoopDone THEN SameRows(degradation_data, FullFailureRows)
       ELSE degradation_data = <<>>

\* C3 witness: the loop has run over data with two processed records of
\* different rates
C3_Witness ==
    /\ LoopDone
    /\ Len(degradation_data) = 2
    /\ degradation_data[1].failure_rate # degradation_data[2].failure_rate

\* C4: with a non-zero baseline b, the result of a processed record of metric
\* t is (t - b) / b * 100: positive when t > b, zero when t = b, negative
\* when t < b; Scenario A gives 25 and 66.67 (to two decimals).
C4_DegradationFormula ==
    /\ (LoopDone /\ baseline # <<0>>) =>
          \A k \in 1..Len(FullFailureRows) :
             LET t == FullFailureRows[k].convergence_time_ms
                 b == baseline[1]
                 d == degradation_data[k].degradation_pct
             IN  /\ d.kind = "num" /\ d.den > 0
                 /\ d.num * b = (t - b) * 100 * d.den
                 /\ t > b => d.num > 0
                 /\ t = b => d.num = 0
                 /\ t < b => d.num < 0
    /\ (LoopDone /\ df = ScenarioA) =>
          /\ baseline = <<120>>
          /\ degradation_data[1].degradation_pct = Float(25)
          /\ LET d == degradation_data[2].degradation_pct
             IN  /\ 2 * 100 * d.num >= 13333 * d.den
                 /\ 2 * 100 * d.num < 13335 * d.den

\* C4 witness: Scenario A past the degradation loop
C4_Witness == LoopDone /\ df = ScenarioA /\ Len(degradation_data) = 2

\* C5 (as claimed): no result carries an infinite or not-a-number
\* degradation_pct.
C5_NoInfNaN ==
    \A k \in 1..Len(degradation_data) :
       degradation_data[k].degradation_pct.kind = "num"

\* the computations of the failure script that need no baseline, and those
\* whose baseline the data holds
Computable ==
    {"plot1", "plot2", "plot3", "plot5", "data_summary", "baseline_summary"}
    \cup (IF NoFailureAt("full") # {} THEN {"plot4"} ELSE {})
    \cup (IF NoFailureAt("full") # {} /\ FullFailureRows # <<>>
          THEN {"plot6"} ELSE {})
    \cup (IF NoFailureOf("push-sum", "full") # {}
          THEN {"pushsum_connection_failure_analysis.png"} ELSE {})

\* C6 (as claimed): a failed baseline lookup is fatal to its own computation
\* only; when the run has ended on one, every computation that needs no
\* baseline, or whose own baseline exists, has completed.
C6_FatalToThatComputationOnly ==
    (script = "failure" /\ pc = "crashed" /\ error = "IndexError")
        => Computable \subseteq completed

\* C7: for every group of a grouping by algorithm or by topology, count is
\* the number of records of the group and is at least 1, convergedCount the
\* number of those below the cap, successRatePct = 100 * convergedCount /
\* count, and 0 <= successRatePct <= 100; Scenario B gives 3 of 5 and 60.
C7_SuccessRate ==
    StatsDone =>
      /\ \A g \in Groupings : \A k \in 1..Len(g[2]) :
            LET s == g[2][k]
                I == RowsOf(g[1], s.key)
            IN  /\ s.total = Cardinality(I) /\ s.total >= 1
                /\ s.converged = Cardinality(BelowCap(I))
                /\ s.rate.kind = "num" /\ s.rate.den > 0
                /\ s.rate.num * s.total = 100 * s.converged * s.rate.den
                /\ 0 <= s.rate.num /\ s.rate.num <= 100 * s.rate.den
      /\ df = ScenarioB =>
            /\ Len(by_topology) = 1
            /\ by_topology[1].converged = 3 /\ by_topology[1].total = 5
            /\ by_topology[1].rate = Float(60)

\* C7 witness: a finished run with a group that converged in part
C7_Witness ==
    /\ StatsDone
    /\ \E k \in 1..Len(by_algorithm) :
          by_algorithm[k].converged = 1 /\ by_algorithm[k].total = 2

\* the data frame with its rows reordered by the permutation p
Reordered(p) == [i \in 1..Len(df) |-> df[p[i]]]

\* C8: the mean of a group is absent exactly when no record of the group
\* converged; otherwise it is the arithmetic mean of the metrics of the
\* converged records of the group alone, and every reordering of the input
\* gives each group the same mean; Scenario B gives 23000.
C8_MeanConverged ==
    StatsDone =>
      /\ \A g \in Groupings : \A k \in 1..Len(g[2]) :
            LET s == g[2][k]
                I == BelowCap(RowsOf(g[1], s.key))
            IN  /\ s.avg_printed = (s.converged # 0)
                /\ s.converged = 0 => s.avg_time.kind = "nan"
                /\ s.converged # 0 =>
                      /\ s.avg_time.kind = "num" /\ s.avg_time.den > 0
                      /\ s.avg_time.num * Cardinality(I) =
                            SumTimes(I) * s.avg_time.den
                /\ \A p \in Permutations(1..Len(df)) :
                      \E j \in 1..Len(g[2]) :
                         LET t == GroupStats(Reordered(p), g[1])[j]
                         IN  /\ t.key = s.key
                             /\ t.avg_time = s.avg_time
                             /\ t.avg_printed = s.avg_printed
      /\ df = ScenarioB =>
            /\ by_topology[1].avg_time = Float(23000)
            /\ by_algorithm[1].avg_time = Float(23000)

\* C8 witness: a finished run with one group without a converged record and
\* one group whose mean leaves out a record at the cap
C8_Witness ==
    /\ StatsDone
    /\ \E k \in 1..Len(by_algorithm) :
          by_algorithm[k].converged = 0 /\ ~by_algorithm[k].avg_printed
    /\ \E k \in 1..Len(by_topology) :
          /\ by_topology[k].converged = 1 /\ by_topology[k].total = 2
          /\ by_topology[k].avg_printed

\* C9: under each grouping every record is in exactly one group; the counts
\* of the groups add up to the number of records and their converged counts
\* to the overall number of converged records.
C9_Partition ==
    StatsDone =>
      \A g \in Groupings :
         /\ \A i \in 1..Len(df) :
               Cardinality({k \in 1..Len(g[2]) : g[2][k].key = df[i][g[1]]}) = 1
         /\ <<SumField(g[2], "total")>> = total_simulations
         /\ total_simulations = <<Len(df)>>
         /\ <<SumField(g[2], "converged")>> = converged_simulations

\* C9 witness: a finished run with two groups under each grouping
C9_Witness ==
    /\ StatsDone
    /\ Len(by_algorithm) = 2 /\ Len(by_topology) = 2
    /\ converged_simulations = <<1>>

\* C10: a baseline lookup returns the metric of the first matching
\* no-failure record in input row order, raises no error when several match,
\* and the two lookups of the full-topology baseline (comparison plot and
\* degradation analysis) return the same value.
C10_FirstMatch ==
    script = "failure" =>
      /\ baseline # Unbound =>
            /\ NoFailureAt("full") # {}
            /\ baseline = <<df[Min(NoFailureAt("full"))].convergence_time_ms>>
            /\ lines["ax4"][1].y = baseline
      /\ (NoFailureAt("full") # {} /\ pc \notin {"plots1to3", "plot4"}) =>
            baseline # Unbound
      /\ pushsum_baseline # Unbound =>
            pushsum_baseline =
               <<df[Min(NoFailureOf("push-sum", "full"))].convergence_time_ms>>
      /\ gossip_baseline # Unbound =>
            gossip_baseline =
               <<df[Min(NoFailureOf("gossip", "full"))].convergence_time_ms>>

\* C10 witness: both lookups done over data with two matching no-failure
\* records of different metrics
C10_Witness ==
    /\ LoopDone
    /\ Cardinality(NoFailureAt("full")) >= 2
    /\ df[Min(NoFailureAt("full"))].convergence_time_ms
          # df[Max(NoFailureAt("full"))].convergence_time_ms

====
